---- MODULE Spec2Model ----
(***************************************************************************)
(* Cybulous: the consent engine (crates/cybulous-consent/src/lib.rs) and   *)
(* the orchestrator (crates/cybulous-core/src/orchestration.rs).           *)
(*                                                                         *)
(* Option<T> is a sequence of length 0 (None) or 1 (Some(v)).              *)
(* Result<T, E> is a record with a tag "Ok" / "Err".                       *)
(* Strings are TLA+ strings; format! is string concatenation.              *)
(***************************************************************************)
EXTENDS Integers, Sequences, FiniteSets, TLC

\* ------------------------------------------------------------------ bounds

\* Calls are made up to time MaxTime; the clock runs past it only to reach
\* the deadline of a call in flight.
MaxTime == 1
\* Number of tasks that issue execute_tool calls (one call id each).
NumCalls == 2

\* ------------------------------------------------------------ input sets

Users == {"alice", "bob"}
\* Values the engine is constructed with (ConsentEngine::new, min_age: u8).
MinAges == {21, 2}
\* Ages ConsentProvider.verify_age may answer.
Ages == {1, 20, 21, 25}
\* Transaction references and ages a caller may have derived a proof from.
TxRefs == {"mock-tx-hash", "mock-tx-hash:2", "tx-hash-alice", "tx-hash-bob"}
ProofAges == {1, 2, 21}

None == <<>>
Some(v) == <<v>>

\* ------------------------------------------------------- consent engine

\* cybulous_crypto::hash_data: a deterministic, collision-free digest.
hash_data(data) == "h(" \o data \o ")"

\* format!("{}:{}", tx_hash, self.min_age)
proof_preimage(tx_hash, age) == tx_hash \o ":" \o ToString(age)

Proofs ==
  {hash_data(proof_preimage(tx, a)) : tx \in TxRefs, a \in ProofAges}
    \cup {"test-proof"}

\* BlockchainClient::get_consent_record: the record every fetch returns.
get_consent_record(user_id, t) ==
  [user_id          |-> user_id,
   status           |-> "Active",
   granted_at       |-> t,
   expires_at       |-> None,
   revoked_at       |-> None,
   tx_hash          |-> "mock-tx-hash",
   age_proof        |-> "age:25",
   discipline_proof |-> "discipline:verified"]

\* BlockchainClient::record_consent, mutated: no reference is produced.
record_consent_empty(attestation) == ""

\* BlockchainClient::record_consent: the transaction reference returned.
record_consent(attestation) == "tx-hash-" \o attestation.user_id

\* The ledger calls return anyhow::Result; the engine maps a failure into
\* BlockchainError.  Whether a ledger call fails is the environment's choice.
LedgerOutcomes == {"ok", "error"}

OkBool(b) == [tag |-> "Ok", val |-> b, err |-> ""]
ErrBool(kind) == [tag |-> "Err", val |-> FALSE, err |-> kind]

\* ConsentEngine::verify_proof_signature, mutated: accepts every proof.
verify_proof_signature_any(proof, tx_hash, min) == TRUE

\* ConsentEngine::verify_proof_signature
verify_proof_signature(proof, tx_hash, min) ==
  proof = hash_data(proof_preimage(tx_hash, min))

\* ConsentEngine::verify_consent, mutated: the expiry of the record is not
\* looked at.
Engine_verify_consent_no_expiry(ledger, record, proof, t, min) ==
  IF ledger = "error" THEN ErrBool("BlockchainError")
  ELSE IF record.status # "Active" THEN OkBool(FALSE)
  ELSE OkBool(verify_proof_signature(proof, record.tx_hash, min))

\* ConsentEngine::verify_consent, given the outcome of the ledger fetch.
Engine_verify_consent(ledger, record, proof, t, min) ==
  IF ledger = "error" THEN ErrBool("BlockchainError")
  ELSE IF record.status # "Active" THEN OkBool(FALSE)
  ELSE IF record.expires_at # None /\ t > record.expires_at[1] THEN OkBool(FALSE)
  ELSE OkBool(verify_proof_signature(proof, record.tx_hash, min))

VARIABLES
  min_age,      \* ConsentEngine.min_age
  now,          \* the clock (ms)
  req,          \* the request_consent that has just completed, if it is the
                \* last operation: user, the age the provider answered,
                \* the calls made and the result
  ver,          \* likewise the ConsentEngine::verify_consent just completed
  rev,          \* likewise the revoke_consent just completed
  granted,      \* user -> Option(tx_hash of the record the user's last
                \* request_consent returned), None again once revoke is called
  revoked       \* user -> revoke_consent has succeeded and request_consent
                \* has not been called since

consentVars == <<req, ver, rev, granted, revoked>>

VARIABLES
  max_concurrent, \* Orchestrator.max_concurrent
  registry,     \* Orchestrator.executors: tool name -> executor
  readers,      \* calls holding a read guard of the RwLock
  writer,       \* Option(registration holding the write guard)
  lockq,        \* tasks waiting for the RwLock, first come first served
  pc,           \* call -> where its execute_tool stands
  tool_call,    \* call -> the ToolCall
  start,        \* call -> Instant::now() taken on entry
  deadline,     \* call -> when the timeout of the race elapses
  consent,      \* call -> what the consent engine answered
  invoked,      \* call -> Option(executor whose execute was called)
  lookup,       \* call -> "hit" / "miss" of executors.get(&call.tool_name)
  answer,       \* call -> how the race ended and what the executor produced
  out,          \* call -> what execute_tool returned
  rpc,          \* where the register_executor in progress stands
  reg_exec,     \* Option(the executor being registered)
  reg_log,      \* history of register_executor: per name the executor of the
                \* last completed registration, and of the latest one its
                \* result and whether it found the name present
  lpc,          \* where the task calling list_tools stands
  listed        \* what the last list_tools returned, and the names that had
                \* been registered when it read the map

orchVars ==
  <<max_concurrent, registry, readers, writer, lockq, pc, tool_call, start,
    deadline, consent, invoked, lookup, answer, out, rpc, reg_exec, reg_log,
    lpc, listed>>
vars == <<min_age, now, consentVars, orchVars>>

NoRecord ==
  [user_id |-> "", status |-> "", granted_at |-> 0, expires_at |-> None,
   revoked_at |-> None, tx_hash |-> "", age_proof |-> "", discipline_proof |-> ""]

ReqResult(tag, err, age, record, calls) ==
  [tag |-> tag, err |-> err, err_age |-> age, record |-> record, calls |-> calls]

\* ConsentEngine::request_consent, mutated: the age comparison is off by one
\* (an age one year short of the minimum passes).
request_consent_off_by_one(user_id, ageAns, discAns, ledger, t, min) ==
  IF ageAns = None
    THEN ReqResult("Err", "ProviderError", 0, NoRecord, <<"verify_age">>)
  ELSE IF ageAns[1] + 1 < min
    THEN ReqResult("Err", "AgeRequirementNotMet", ageAns[1], NoRecord,
                   <<"verify_age">>)
  ELSE IF discAns = None
    THEN ReqResult("Err", "DisciplineIneligible", 0, NoRecord,
                   <<"verify_age", "check_discipline">>)
  ELSE IF ledger = "error"
    THEN ReqResult("Err", "BlockchainError", 0, NoRecord,
                   <<"verify_age", "check_discipline", "record_consent">>)
  ELSE ReqResult("Ok", "", 0,
         [user_id          |-> user_id,
          status           |-> "Active",
          granted_at       |-> t,
          expires_at       |-> None,
          revoked_at       |-> None,
          tx_hash          |-> record_consent([user_id |-> user_id]),
          age_proof        |-> "age:" \o ToString(ageAns[1]),
          discipline_proof |-> discAns[1]],
         <<"verify_age", "check_discipline", "record_consent">>)

\* ConsentEngine::request_consent, mutated: the attestation is recorded on the
\* ledger before the discipline check is consulted.
request_consent_ledger_first(user_id, ageAns, discAns, ledger, t, min) ==
  IF ageAns = None
    THEN ReqResult("Err", "ProviderError", 0, NoRecord, <<"verify_age">>)
  ELSE IF ageAns[1] < min
    THEN ReqResult("Err", "AgeRequirementNotMet", ageAns[1], NoRecord,
                   <<"verify_age">>)
  ELSE IF ledger = "error"
    THEN ReqResult("Err", "BlockchainError", 0, NoRecord,
                   <<"verify_age", "record_consent">>)
  ELSE IF discAns = None
    THEN ReqResult("Err", "DisciplineIneligible", 0, NoRecord,
                   <<"verify_age", "record_consent", "check_discipline">>)
  ELSE ReqResult("Ok", "", 0,
         [user_id          |-> user_id,
          status           |-> "Active",
          granted_at       |-> t,
          expires_at       |-> None,
          revoked_at       |-> None,
          tx_hash          |-> record_consent([user_id |-> user_id,
                                               age |-> ageAns[1],
                                               discipline_proof |-> discAns[1],
                                               timestamp |-> t]),
          age_proof        |-> "age:" \o ToString(ageAns[1]),
          discipline_proof |-> discAns[1]],
         <<"verify_age", "record_consent", "check_discipline">>)

\* ConsentEngine::request_consent, given what the provider and the ledger
\* answer: ageAns / discAns are Option (None: the provider call failed).
request_consent(user_id, ageAns, discAns, ledger, t, min) ==
  IF ageAns = None
    THEN ReqResult("Err", "ProviderError", 0, NoRecord, <<"verify_age">>)
  ELSE IF ageAns[1] < min
    THEN ReqResult("Err", "AgeRequirementNotMet", ageAns[1], NoRecord,
                   <<"verify_age">>)
  ELSE IF discAns = None
    THEN ReqResult("Err", "DisciplineIneligible", 0, NoRecord,
                   <<"verify_age", "check_discipline">>)
  ELSE IF ledger = "error"
    THEN ReqResult("Err", "BlockchainError", 0, NoRecord,
                   <<"verify_age", "check_discipline", "record_consent">>)
  ELSE ReqResult("Ok", "", 0,
         [user_id          |-> user_id,
          status           |-> "Active",
          granted_at       |-> t,
          expires_at       |-> None,
          revoked_at       |-> None,
          tx_hash          |-> record_consent([user_id |-> user_id,
                                               age |-> ageAns[1],
                                               discipline_proof |-> discAns[1],
                                               timestamp |-> t]),
          age_proof        |-> "age:" \o ToString(ageAns[1]),
          discipline_proof |-> discAns[1]],
         <<"verify_age", "check_discipline", "record_consent">>)

\* ConsentEngine::revoke_consent: forwards to BlockchainClient::revoke_consent,
\* which logs and returns Ok(()) without touching any record.
revoke_consent(user_id, ledger) ==
  IF ledger = "error" THEN "BlockchainError" ELSE "Ok"

NoReq == [user |-> "", age |-> None, disc |-> None, result |-> ReqResult("none", "", 0, NoRecord, <<>>)]
NoVer ==
  [user |-> "", proof |-> "", ledger |-> "", at |-> 0, record |-> NoRecord,
   result |-> [tag |-> "none", val |-> FALSE, err |-> ""],
   revoked_before |-> FALSE, grant |-> None]
NoRev == [user |-> "", result |-> "none"]

\* A caller runs request_consent(user_id) to completion.
RequestConsent(u) ==
  \E ageAns \in {None} \cup {Some(a) : a \in Ages},
     discAns \in {None, Some("discipline:verified")},
     ledger \in LedgerOutcomes :
    LET r == request_consent(u, ageAns, discAns, ledger, now, min_age) IN
      /\ req' = [user |-> u, age |-> ageAns, disc |-> discAns, result |-> r]
      /\ granted' = [granted EXCEPT ![u] = IF r.tag = "Ok"
                                             THEN Some(r.record.tx_hash)
                                             ELSE None]
      /\ revoked' = [revoked EXCEPT ![u] = FALSE]
      /\ ver' = NoVer /\ rev' = NoRev
      /\ UNCHANGED <<min_age, now, orchVars>>

\* A caller runs ConsentEngine::verify_consent(user_id, proof) to completion.
VerifyConsent(u, p) ==
  \E ledger \in LedgerOutcomes :
    LET record == get_consent_record(u, now) IN
      /\ ver' = [user           |-> u,
                 proof          |-> p,
                 ledger         |-> ledger,
                 at             |-> now,
                 record         |-> IF ledger = "ok" THEN record ELSE NoRecord,
                 result         |-> Engine_verify_consent(ledger, record, p, now,
                                                          min_age),
                 revoked_before |-> revoked[u],
                 grant          |-> granted[u]]
      /\ req' = NoReq /\ rev' = NoRev
      /\ UNCHANGED <<granted, revoked, min_age, now, orchVars>>

\* ConsentStatus: the states a ledger record can be in.
ConsentStatuses == {"Pending", "Active", "Revoked", "Expired"}

\* The records a ledger fetch can deliver for a user: any status, with or
\* without an expiry time, under either kind of transaction reference.
LedgerRecords(user_id) ==
  {[user_id          |-> user_id,
    status           |-> st,
    granted_at       |-> 0,
    expires_at       |-> ex,
    revoked_at       |-> None,
    tx_hash          |-> tx,
    age_proof        |-> "age:25",
    discipline_proof |-> "discipline:verified"] :
     st \in ConsentStatuses,
     ex \in {None} \cup {Some(t) : t \in 0..MaxTime},
     tx \in {"mock-tx-hash", "tx-hash-" \o user_id}}

\* A caller runs ConsentEngine::verify_consent(user_id, proof) to completion
\* against a ledger whose fetch delivers `record`.
VerifyFetched(u, p, record) ==
  \E ledger \in LedgerOutcomes :
    /\ ver' = [user           |-> u,
               proof          |-> p,
               ledger         |-> ledger,
               at             |-> now,
               record         |-> IF ledger = "ok" THEN record ELSE NoRecord,
               result         |-> Engine_verify_consent(ledger, record, p, now,
                                                        min_age),
               revoked_before |-> revoked[u],
               grant          |-> granted[u]]
    /\ req' = NoReq /\ rev' = NoRev
    /\ UNCHANGED <<granted, revoked, min_age, now, orchVars>>

\* A caller runs revoke_consent(user_id) to completion.
RevokeConsent(u) ==
  \E ledger \in LedgerOutcomes :
    LET r == revoke_consent(u, ledger) IN
      /\ rev' = [user |-> u, result |-> r]
      /\ revoked' = [revoked EXCEPT ![u] = (r = "Ok") \/ revoked[u]]
      /\ granted' = [granted EXCEPT ![u] = None]
      /\ req' = NoReq /\ ver' = NoVer
      /\ UNCHANGED <<min_age, now, orchVars>>

\* ----------------------------------------------------------- orchestrator

Calls == 1..NumCalls
\* Registered executors and ToolExecutor::name of each.
Executors == {"e1", "e2", "e3"}
name(e) == IF e = "e3" THEN "other-tool" ELSE "test-tool"
\* Tool names, proofs and timeouts callers put into a ToolCall.
ToolNames == {"test-tool", "other-tool", "nonexistent"}
CallUsers == {"alice"}
CallProofs == {hash_data(proof_preimage("mock-tx-hash", 21)), "test-proof"}
Timeouts == {0, 1}

\* The ToolResponse values an executor may build for a call: MockExecutor's, a
\* response reporting failure, and one with neither payload nor the call's id.
ExecutorResponses(call) ==
  {[call_id |-> call.id, status |-> "Success", result |-> Some("executed"),
    error |-> None, duration_ms |-> 10],
   [call_id |-> call.id, status |-> "Failed", result |-> None,
    error |-> Some("tool reported failure"), duration_ms |-> 10],
   [call_id |-> 0, status |-> "Success", result |-> None,
    error |-> None, duration_ms |-> 10]}
\* The errors an executor may return.
ExecutorErrors ==
  {[variant |-> "OrchestrationFailed", msg |-> "tool crashed"],
   [variant |-> "ArtifactError", msg |-> "artifact missing"]}

\* Display of CybulousError (thiserror #[error(...)] attributes).
to_string(e) ==
  IF e.variant = "OrchestrationFailed" THEN "orchestration failed: " \o e.msg
  ELSE IF e.variant = "ConsentError" THEN "consent verification failed: " \o e.msg
  ELSE IF e.variant = "ArtifactError" THEN "artifact storage error: " \o e.msg
  ELSE e.msg

\* Result<ToolResponse>: what execute_tool hands back.
OkResponse(r) == [tag |-> "Ok", response |-> Some(r), error |-> None]
HardError(e) == [tag |-> "Err", response |-> None, error |-> Some(e)]
NoOut == [tag |-> "none", response |-> None, error |-> None]
NoAnswer == [arm |-> "none", response |-> None, error |-> None]

\* Orchestrator::verify_consent, mutated: Ok(false) lets the call through.
verify_consent_open(r) ==
  IF r.tag = "Ok" THEN None
  ELSE Some([variant |-> "ConsentError", msg |-> "Consent check error: " \o r.err])

\* Orchestrator::verify_consent: Result<()> as Option of the error.
Orchestrator_verify_consent(r) ==
  IF r.tag = "Ok" /\ r.val THEN None
  ELSE IF r.tag = "Ok"
    THEN Some([variant |-> "ConsentError", msg |-> "Consent verification failed"])
  ELSE Some([variant |-> "ConsentError", msg |-> "Consent check error: " \o r.err])

\* The registry miss, mutated: encoded as a Failed response.
unknown_tool_failed(call) ==
  OkResponse([call_id |-> call.id, status |-> "Failed", result |-> None,
              error |-> Some("Unknown tool: " \o call.tool_name),
              duration_ms |-> 0])

\* executors.get(&call.tool_name).ok_or_else(..)? on a miss
unknown_tool(call) ==
  HardError([variant |-> "OrchestrationFailed",
             msg |-> "Unknown tool: " \o call.tool_name])

\* The Ok(Ok(response)) arm.
on_response(call, response, elapsed) ==
  OkResponse([response EXCEPT !.duration_ms = elapsed])

\* The Ok(Err(e)) arm, mutated: the error message is dropped.
on_error_silent(call, e, elapsed) ==
  OkResponse([call_id |-> call.id, status |-> "Failed", result |-> None,
              error |-> None, duration_ms |-> elapsed])

\* The Ok(Err(e)) arm.
on_error(call, e, elapsed) ==
  OkResponse([call_id |-> call.id, status |-> "Failed", result |-> None,
              error |-> Some(to_string(e)), duration_ms |-> elapsed])

\* The Err(_) arm, mutated: reports the measured time.
on_elapsed_measured(call, elapsed) ==
  OkResponse([call_id |-> call.id, status |-> "Timeout", result |-> None,
              error |-> Some("Execution timeout"), duration_ms |-> elapsed])

\* The Err(_) arm.
on_elapsed(call, elapsed) ==
  OkResponse([call_id |-> call.id, status |-> "Timeout", result |-> None,
              error |-> Some("Execution timeout"),
              duration_ms |-> call.timeout_ms])

\* Values Orchestrator::new is given for max_concurrent.
MaxConcurrents == {1}

NoCall ==
  [id |-> 0, tool_name |-> "", user_id |-> "", consent_proof |-> "",
   timeout_ms |-> 0]

\* The names executors register under.
RegisteredNames == {name(e) : e \in Executors}
NoRegLog ==
  [last |-> [n \in RegisteredNames |-> None], result |-> "none",
   replaced |-> FALSE]
NoListed == [tools |-> None, registered |-> {}]

Reader(c) == [task |-> "call", who |-> ToString(c), mode |-> "read"]
Writer(e) == [task |-> "register", who |-> e, mode |-> "write"]
Lister == [task |-> "list", who |-> "", mode |-> "read"]

\* ConsentEngine::new / Orchestrator::new: nothing registered, no call made.
Init ==
  /\ min_age \in MinAges
  /\ now = 0
  /\ req = NoReq
  /\ ver = NoVer
  /\ rev = NoRev
  /\ granted = [u \in Users |-> None]
  /\ revoked = [u \in Users |-> FALSE]
  /\ max_concurrent \in MaxConcurrents
  /\ registry = <<>>
  /\ readers = {}
  /\ writer = None
  /\ lockq = <<>>
  /\ pc = [c \in Calls |-> "idle"]
  /\ tool_call = [c \in Calls |-> NoCall]
  /\ start = [c \in Calls |-> 0]
  /\ deadline = [c \in Calls |-> 0]
  /\ consent = [c \in Calls |-> "none"]
  /\ invoked = [c \in Calls |-> None]
  /\ lookup = [c \in Calls |-> "none"]
  /\ answer = [c \in Calls |-> NoAnswer]
  /\ out = [c \in Calls |-> NoOut]
  /\ rpc = "idle"
  /\ reg_exec = None
  /\ reg_log = NoRegLog
  /\ lpc = "idle"
  /\ listed = NoListed

callVars ==
  <<pc, tool_call, start, deadline, consent, invoked, lookup, answer, out>>
listVars == <<lpc, listed>>

\* register_executor(executor): self.executors.write() is requested.
\* Registrations are issued by one task, one after another.
RegisterRequest(e) ==
  /\ rpc = "idle"
  /\ rpc' = "wait_write"
  /\ reg_exec' = Some(e)
  /\ lockq' = Append(lockq, Writer(e))
  /\ UNCHANGED <<min_age, now, consentVars, max_concurrent, listVars, registry,
                 readers, writer, reg_log, callVars>>

\* The write guard is granted: first in the queue, no reader, no writer.
RegisterAcquire ==
  /\ rpc = "wait_write"
  /\ lockq # <<>> /\ Head(lockq) = Writer(reg_exec[1])
  /\ readers = {} /\ writer = None
  /\ lockq' = Tail(lockq)
  /\ writer' = reg_exec
  /\ rpc' = "writing"
  /\ UNCHANGED <<min_age, now, consentVars, max_concurrent, listVars, registry,
                 readers, reg_exec, reg_log, callVars>>

\* HashMap::insert, mutated: an entry already present is kept.
insert_if_absent(map, key, value) ==
  [k \in DOMAIN map \cup {key} |-> IF k \in DOMAIN map THEN map[k] ELSE value]

\* HashMap::insert: the entry of the name now holds this executor.
insert(map, key, value) ==
  [k \in DOMAIN map \cup {key} |-> IF k = key THEN value ELSE map[k]]

\* executors.insert(name, executor); the guard is dropped on return.
RegisterInsert ==
  /\ rpc = "writing"
  /\ registry' = insert(registry, name(reg_exec[1]), reg_exec[1])
  /\ writer' = None
  /\ rpc' = "idle"
  /\ reg_exec' = None
  /\ reg_log' = [last     |-> [reg_log.last EXCEPT ![name(reg_exec[1])] = reg_exec],
                 result   |-> "Ok",
                 replaced |-> name(reg_exec[1]) \in DOMAIN registry]
  /\ UNCHANGED <<min_age, now, consentVars, max_concurrent, listVars, readers,
                 lockq, callVars>>

\* list_tools(): self.executors.read() is requested.
ListRequest ==
  /\ lpc = "idle"
  /\ lpc' = "wait_read"
  /\ lockq' = Append(lockq, Lister)
  /\ UNCHANGED <<min_age, now, consentVars, max_concurrent, registry, readers,
                 writer, callVars, rpc, reg_exec, reg_log, listed>>

\* executors.keys().cloned().collect(): every key once, in the order the
\* HashMap iterates them, which is any order.
list_tools(map) ==
  {v \in [1..Cardinality(DOMAIN map) -> DOMAIN map] :
     \A i, j \in DOMAIN v : v[i] = v[j] => i = j}

\* The read guard is granted (first in the queue, no writer), the keys are
\* collected and the guard is dropped on return.
ListTools ==
  /\ lpc = "wait_read"
  /\ lockq # <<>> /\ Head(lockq) = Lister
  /\ writer = None
  /\ lockq' = Tail(lockq)
  /\ \E v \in list_tools(registry) :
       listed' = [tools      |-> Some(v),
                  registered |-> {n \in RegisteredNames : reg_log.last[n] # None}]
  /\ lpc' = "idle"
  /\ UNCHANGED <<min_age, now, consentVars, max_concurrent, registry, readers,
                 writer, callVars, rpc, reg_exec, reg_log>>

\* execute_tool is entered with the ToolCall given; start = Instant::now().
\* No call is made after MaxTime.
Enter(c, call) ==
  /\ pc[c] = "idle"
  /\ now <= MaxTime
  /\ tool_call' = [tool_call EXCEPT ![c] = call]
  /\ start' = [start EXCEPT ![c] = now]
  /\ pc' = [pc EXCEPT ![c] = "verify"]
  /\ UNCHANGED <<min_age, now, consentVars, max_concurrent, listVars, registry, readers,
                 writer, lockq, deadline, consent, invoked, lookup, answer, out, rpc,
                 reg_exec, reg_log>>

\* A caller makes a call of any kind; under Spec a caller awaits each call
\* before the next one is made.
Start(c) ==
  /\ \A d \in Calls : pc[d] = "idle"
  /\ \E t \in ToolNames, u \in CallUsers, p \in CallProofs, ms \in Timeouts :
       Enter(c, [id |-> c, tool_name |-> t, user_id |-> u,
                 consent_proof |-> p, timeout_ms |-> ms])

\* Callers make calls side by side, one more than max_concurrent at most, each
\* on the first free task: a call names a tool an executor can be registered
\* under and presents the proof that matches the minimum age.
StartConcurrent(c) ==
  /\ Cardinality({d \in Calls : pc[d] # "idle"}) <= max_concurrent
  /\ \A d \in Calls : d < c => pc[d] # "idle"
  /\ \E t \in RegisteredNames, u \in CallUsers, ms \in Timeouts :
    Enter(c, [id |-> c, tool_name |-> t, user_id |-> u,
              consent_proof |->
                hash_data(proof_preimage(
                  get_consent_record(u, now).tx_hash, min_age)),
              timeout_ms |-> ms])

\* self.verify_consent(&call).await? and, when it passes, the request for
\* the read guard (self.executors.read()).
Gate(c) ==
  /\ pc[c] = "verify"
  /\ \E ledger \in LedgerOutcomes :
       LET r == Engine_verify_consent(ledger,
                                      get_consent_record(tool_call[c].user_id, now),
                                      tool_call[c].consent_proof, now, min_age)
           g == Orchestrator_verify_consent(r)
       IN /\ consent' = [consent EXCEPT ![c] =
                           IF r.tag = "Err" THEN "error"
                           ELSE IF r.val THEN "true" ELSE "false"]
          /\ IF g = None
               THEN /\ pc' = [pc EXCEPT ![c] = "wait_read"]
                    /\ lockq' = Append(lockq, Reader(c))
                    /\ out' = out
               ELSE /\ pc' = [pc EXCEPT ![c] = "done"]
                    /\ lockq' = lockq
                    /\ out' = [out EXCEPT ![c] = HardError(g[1])]
  /\ UNCHANGED <<min_age, now, consentVars, max_concurrent, listVars, registry, readers,
                 writer, tool_call, start, deadline, invoked, lookup, answer, rpc,
                 reg_exec, reg_log>>

\* execute_tool, mutated: a call is dispatched only while fewer than
\* max_concurrent executors are running.
permit_bounded(in_flight, limit) == in_flight < limit

\* execute_tool takes no permit before dispatching: max_concurrent is not read.
permit(in_flight, limit) == TRUE

\* execute_tool, mutated: the read guard is dropped once the executor has
\* been looked up.
hold_guard_released(guards, c) == guards

\* `executors`, the read guard, lives until execute_tool returns: it is held
\* while the executor runs.
hold_guard(guards, c) == guards \cup {c}

\* tokio::time::timeout, mutated: the timer never fires.
timer_never(t, d) == FALSE

\* tokio::time::timeout: the timer has fired once the deadline is reached.
timer_fired(t, d) == t >= d

\* The read guard is granted (first in the queue, no writer); the name is
\* looked up; on a hit executor.execute(&call) is called and raced against
\* the timeout, on a miss the error is returned and the guard dropped.
Dispatch(c) ==
  /\ pc[c] = "wait_read"
  /\ lockq # <<>> /\ Head(lockq) = Reader(c)
  /\ writer = None
  /\ permit(Cardinality(readers), max_concurrent)
  /\ lockq' = Tail(lockq)
  /\ IF tool_call[c].tool_name \in DOMAIN registry
       THEN /\ lookup' = [lookup EXCEPT ![c] = "hit"]
            /\ readers' = hold_guard(readers, c)
            /\ invoked' = [invoked EXCEPT ![c] =
                             Some(registry[tool_call[c].tool_name])]
            /\ deadline' = [deadline EXCEPT ![c] = now + tool_call[c].timeout_ms]
            /\ pc' = [pc EXCEPT ![c] = "executing"]
            /\ out' = out
       ELSE /\ lookup' = [lookup EXCEPT ![c] = "miss"]
            /\ out' = [out EXCEPT ![c] = unknown_tool(tool_call[c])]
            /\ pc' = [pc EXCEPT ![c] = "done"]
            /\ UNCHANGED <<readers, invoked, deadline>>
  /\ UNCHANGED <<min_age, now, consentVars, max_concurrent, listVars, registry, writer,
                 tool_call, start, consent, answer, rpc, reg_exec, reg_log>>

\* The executor can complete while the deadline has not elapsed, or at once
\* when first polled.
InTime(c) ==
  \/ now < deadline[c]
  \/ now = deadline[c] - tool_call[c].timeout_ms

\* The race ends with Ok(Ok(response)).
Completes(c, response) ==
  /\ pc[c] = "executing"
  /\ InTime(c)
  /\ answer' = [answer EXCEPT ![c] = [arm |-> "response",
                                      response |-> Some(response),
                                      error |-> None]]
  /\ out' = [out EXCEPT ![c] =
               on_response(tool_call[c], response, now - start[c])]
  /\ readers' = readers \ {c}
  /\ pc' = [pc EXCEPT ![c] = "done"]
  /\ UNCHANGED <<min_age, now, consentVars, max_concurrent, listVars, registry, writer,
                 lockq, tool_call, start, deadline, consent, invoked, lookup,
                 rpc, reg_exec, reg_log>>

\* The executor answers with any response an executor may build.
ExecutorReturns(c) ==
  \E response \in ExecutorResponses(tool_call[c]) : Completes(c, response)

\* MockExecutor::execute: the response of the executor of the test module.
MockResponse(call) ==
  [call_id |-> call.id, status |-> "Success", result |-> Some("executed"),
   error |-> None, duration_ms |-> 10]

\* The executor is a MockExecutor and answers.
MockExecutorReturns(c) == Completes(c, MockResponse(tool_call[c]))

\* The race ends with Ok(Err(e)).
ExecutorFails(c) ==
  /\ pc[c] = "executing"
  /\ InTime(c)
  /\ \E e \in ExecutorErrors :
       /\ answer' = [answer EXCEPT ![c] = [arm |-> "error", response |-> None,
                                           error |-> Some(e)]]
       /\ out' = [out EXCEPT ![c] = on_error(tool_call[c], e, now - start[c])]
  /\ readers' = readers \ {c}
  /\ pc' = [pc EXCEPT ![c] = "done"]
  /\ UNCHANGED <<min_age, now, consentVars, max_concurrent, listVars, registry, writer,
                 lockq, tool_call, start, deadline, consent, invoked, lookup,
                 rpc, reg_exec, reg_log>>

\* The race ends with Err(Elapsed): the executor had not completed.
Elapsed(c) ==
  /\ pc[c] = "executing"
  /\ timer_fired(now, deadline[c])
  /\ answer' = [answer EXCEPT ![c] = [arm |-> "elapsed", response |-> None,
                                      error |-> None]]
  /\ out' = [out EXCEPT ![c] = on_elapsed(tool_call[c], now - start[c])]
  /\ readers' = readers \ {c}
  /\ pc' = [pc EXCEPT ![c] = "done"]
  /\ UNCHANGED <<min_age, now, consentVars, max_concurrent, listVars, registry, writer,
                 lockq, tool_call, start, deadline, consent, invoked, lookup,
                 rpc, reg_exec, reg_log>>

\* The caller has taken what execute_tool returned; the task is free again.
Return(c) ==
  /\ pc[c] = "done"
  /\ pc' = [pc EXCEPT ![c] = "idle"]
  /\ tool_call' = [tool_call EXCEPT ![c] = NoCall]
  /\ start' = [start EXCEPT ![c] = 0]
  /\ deadline' = [deadline EXCEPT ![c] = 0]
  /\ consent' = [consent EXCEPT ![c] = "none"]
  /\ invoked' = [invoked EXCEPT ![c] = None]
  /\ lookup' = [lookup EXCEPT ![c] = "none"]
  /\ answer' = [answer EXCEPT ![c] = NoAnswer]
  /\ out' = [out EXCEPT ![c] = NoOut]
  /\ UNCHANGED <<min_age, now, consentVars, max_concurrent, listVars, registry, readers,
                 writer, lockq, rpc, reg_exec, reg_log>>

\* Time passes.
Tick ==
  /\ \/ now < MaxTime
     \/ \E c \in Calls : pc[c] = "executing" /\ now < deadline[c]
  /\ now' = now + 1
  /\ UNCHANGED <<min_age, consentVars, orchVars>>

Next ==
  \/ \E e \in Executors : RegisterRequest(e)
  \/ RegisterAcquire
  \/ RegisterInsert
  \/ \E c \in Calls : Start(c)
  \/ \E c \in Calls : Gate(c)
  \/ \E c \in Calls : Dispatch(c)
  \/ \E c \in Calls : ExecutorReturns(c)
  \/ \E c \in Calls : ExecutorFails(c)
  \/ \E c \in Calls : Elapsed(c)
  \/ \E c \in Calls : Return(c)
  \/ Tick

Spec == Init /\ [][Next]_vars

ConsentNext ==
  \/ \E u \in Users : RequestConsent(u)
  \/ \E u \in Users, p \in Proofs : VerifyConsent(u, p)
  \/ \E u \in Users : RevokeConsent(u)

ConsentSpec == Init /\ [][ConsentNext]_vars

\* Calls made side by side, against executors that answer as MockExecutor
\* does or do not answer at all, while registrations go on.
ConcurrentNext ==
  \/ \E e \in Executors : RegisterRequest(e)
  \/ RegisterAcquire
  \/ RegisterInsert
  \/ \E c \in Calls : StartConcurrent(c)
  \/ \E c \in Calls : Gate(c)
  \/ \E c \in Calls : Dispatch(c)
  \/ \E c \in Calls : MockExecutorReturns(c)
  \/ \E c \in Calls : Elapsed(c)
  \/ \E c \in Calls : Return(c)
  \/ Tick

\* The engine is the one ConsentEngine::mock builds (min_age 21): every call
\* here presents the matching proof, whatever the minimum age is.
ConcurrentInit == Init /\ min_age = 21

ConcurrentSpec == ConcurrentInit /\ [][ConcurrentNext]_vars

\* The runtime polls every task that can proceed and its timers fire: time
\* passes, a lock request that can be granted is granted, a registration
\* holding the write guard inserts and returns, and a call whose deadline has
\* passed takes the timeout branch. Executors are not bound to answer.
Fairness ==
  /\ WF_vars(Tick)
  /\ WF_vars(RegisterAcquire)
  /\ WF_vars(RegisterInsert)
  /\ \A c \in Calls : WF_vars(Dispatch(c)) /\ WF_vars(Elapsed(c))

FairSpec == Init /\ [][Next]_vars /\ Fairness

FairConcurrentSpec == ConcurrentInit /\ [][ConcurrentNext]_vars /\ Fairness

\* Registrations and listings alone.
RegistryNext ==
  \/ \E e \in Executors : RegisterRequest(e)
  \/ RegisterAcquire
  \/ RegisterInsert
  \/ ListRequest
  \/ ListTools

RegistrySpec == Init /\ [][RegistryNext]_vars

\* The consent engine in front of a ledger that holds records of every kind,
\* while time passes: the caller presents the proof that matches the record
\* fetched, or one that does not.
LedgerNext ==
  \/ \E u \in Users :
       \E record \in LedgerRecords(u) :
         \E p \in {hash_data(proof_preimage(record.tx_hash, min_age)),
                   "test-proof"} :
           VerifyFetched(u, p, record)
  \/ Tick

LedgerSpec == Init /\ [][LedgerNext]_vars

\* ------------------------------------------------------------------ claims

Response(c) == out[c].response[1]
Calls_made(r) == {r.calls[i] : i \in DOMAIN r.calls}

\* C1: whenever the consent check of a call returned false or an error,
\* execute_tool returns a ToolResponse (not an error) with status
\* ConsentDenied and result none.
C1_DeniedIsAResponse ==
  \A c \in Calls :
    (pc[c] = "done" /\ consent[c] \in {"false", "error"}) =>
      /\ out[c].tag = "Ok"
      /\ Response(c).status = "ConsentDenied"
      /\ Response(c).result = None

\* C2: a call whose consent check returned false or an error never looks the
\* registry up and never has an executor's execute called; an executor is
\* only ever invoked for a call whose verify_consent returned true.
C2_NoExecutionWithoutConsent ==
  \A c \in Calls :
    /\ consent[c] \in {"false", "error"} =>
         /\ invoked[c] = None
         /\ lookup[c] = "none"
         /\ c \notin readers
         /\ \A i \in DOMAIN lockq : lockq[i] # Reader(c)
    /\ (invoked[c] # None \/ lookup[c] # "none") => consent[c] = "true"

\* C2 witness: a call for a registered tool has been denied.
C2_Witness ==
  \E c \in Calls :
    /\ pc[c] = "done"
    /\ consent[c] = "false"
    /\ tool_call[c].tool_name \in DOMAIN registry

\* C3: a verify_consent made after revoke_consent succeeded for the user (and
\* with no request_consent since) returns false, whatever the proof.
C3_RevokedIsTerminal ==
  (ver.user # "" /\ ver.ledger = "ok" /\ ver.revoked_before) =>
    ver.result = OkBool(FALSE)

\* C4: on an Active, unexpired record verify_consent returns true exactly when
\* the proof is hash_data(tx_hash ":" min_age) for the record's tx_hash and
\* the engine's min_age; a proof derived from another transaction reference
\* or another minimum age is rejected.
C4_ProofAcceptedIff ==
  (ver.user # "" /\ ver.ledger = "ok" /\ ver.record.status = "Active"
     /\ ver.record.expires_at = None) =>
    /\ ver.result.tag = "Ok"
    /\ ver.result.val <=>
         ver.proof = hash_data(proof_preimage(ver.record.tx_hash, min_age))
    /\ \A tx \in TxRefs, a \in ProofAges :
         (/\ tx # ver.record.tx_hash \/ a # min_age
          /\ ver.proof = hash_data(proof_preimage(tx, a)))
           => ver.result = OkBool(FALSE)

\* C4 witness: a proof has been accepted, and it is the derived one.
C4_Witness ==
  /\ ver.result = OkBool(TRUE)
  /\ ver.proof = hash_data(proof_preimage("mock-tx-hash", min_age))

\* C5: when the provider answers an age below the configured minimum,
\* request_consent fails with AgeRequirementNotMet(age) and has called neither
\* check_discipline nor record_consent.
C5_UnderageRejected ==
  (req.age # None /\ req.age[1] < min_age) =>
    /\ req.result.tag = "Err"
    /\ req.result.err = "AgeRequirementNotMet"
    /\ req.result.err_age = req.age[1]
    /\ "check_discipline" \notin Calls_made(req.result)
    /\ "record_consent" \notin Calls_made(req.result)
    /\ granted[req.user] = None

\* C5 witness: an age one year short of a minimum of 21 has been rejected.
C5_Witness ==
  /\ min_age = 21
  /\ req.age = Some(20)
  /\ req.result.err = "AgeRequirementNotMet"

\* C6: after request_consent succeeded for a user, with no revoke since,
\* verify_consent with the proof derived from the returned record's tx_hash
\* and the configured minimum age returns true.
C6_GrantVerifyRoundTrip ==
  (/\ ver.user # "" /\ ver.ledger = "ok"
   /\ ver.grant # None
   /\ ver.proof = hash_data(proof_preimage(ver.grant[1], min_age)))
    => ver.result = OkBool(TRUE)

\* C7: when the deadline elapses before the executor has completed, the
\* response has status Timeout, no result, the fixed timeout message and
\* duration_ms equal to the call's timeout_ms; and an executor's own answer
\* is only ever returned when it came no later than the deadline.
C7_TimeoutResponse ==
  \A c \in Calls :
    /\ answer[c].arm = "elapsed" =>
         /\ out[c].tag = "Ok"
         /\ Response(c).status = "Timeout"
         /\ Response(c).result = None
         /\ Response(c).error = Some("Execution timeout")
         /\ Response(c).duration_ms = tool_call[c].timeout_ms
    /\ answer[c].arm \in {"response", "error"} =>
         start[c] + Response(c).duration_ms <= deadline[c]

\* C7 witness: a call has timed out after more time than its timeout_ms had
\* passed since it was entered.
C7_Witness ==
  \E c \in Calls :
    /\ answer[c].arm = "elapsed"
    /\ consent[c] = "true" /\ invoked[c] # None
    /\ now - start[c] > tool_call[c].timeout_ms

\* C8: when the executor returns an error before the deadline, execute_tool
\* returns a response with status Failed, the executor's error message and
\* no result.
C8_FailedResponse ==
  \A c \in Calls :
    answer[c].arm = "error" =>
      /\ out[c].tag = "Ok"
      /\ Response(c).status = "Failed"
      /\ Response(c).result = None
      /\ Response(c).error = Some(to_string(answer[c].error[1]))

\* C8 witness: an executor has returned an error for an approved call.
C8_Witness ==
  \E c \in Calls :
    /\ answer[c].arm = "error"
    /\ consent[c] = "true" /\ invoked[c] # None
    /\ pc[c] = "done"

\* C9: when the executor completes without error before the deadline, the
\* response returned has status Success and a populated result, whatever
\* response the executor produced.
C9_SuccessResponse ==
  \A c \in Calls :
    answer[c].arm = "response" =>
      /\ out[c].tag = "Ok"
      /\ Response(c).status = "Success"
      /\ Response(c).result # None

\* C10: an approved call whose tool name is not in the registry at lookup
\* time gets the error OrchestrationFailed naming the tool, not a response,
\* and no executor is invoked.
C10_UnknownToolIsAnError ==
  \A c \in Calls :
    lookup[c] = "miss" =>
      /\ out[c] = HardError([variant |-> "OrchestrationFailed",
                             msg |-> "Unknown tool: " \o tool_call[c].tool_name])
      /\ invoked[c] = None
      /\ answer[c] = NoAnswer

\* C10 witness: an approved call named a tool that was not registered while
\* another tool was.
C10_Witness ==
  \E c \in Calls :
    /\ lookup[c] = "miss"
    /\ consent[c] = "true"
    /\ registry # <<>>

\* C12: the record a successful request_consent returns has status Active, a
\* non-empty tx_hash, no expiry and no revocation time.
C12_GrantedRecordShape ==
  req.result.tag = "Ok" =>
    /\ req.result.record.status = "Active"
    /\ req.result.record.tx_hash # ""
    /\ req.result.record.expires_at = None
    /\ req.result.record.revoked_at = None

\* C12 witness: a request_consent has succeeded and returned the user's
\* record.
C12_Witness ==
  /\ req.result.tag = "Ok"
  /\ req.result.record.user_id = req.user
  /\ req.user \in Users

\* C16: when the age check passed and check_discipline fails, request_consent
\* fails with DisciplineIneligible and record_consent is never called; the
\* ledger append is reached only after verify_age and then check_discipline
\* have both succeeded, in that order.
C16_NoAppendBeforeDiscipline ==
  req.result.tag # "none" =>
    /\ (req.age # None /\ req.age[1] >= min_age /\ req.disc = None) =>
         /\ req.result.tag = "Err"
         /\ req.result.err = "DisciplineIneligible"
         /\ "record_consent" \notin Calls_made(req.result)
    /\ "record_consent" \in Calls_made(req.result) =>
         /\ req.result.calls =
              <<"verify_age", "check_discipline", "record_consent">>
         /\ req.age # None /\ req.age[1] >= min_age
         /\ req.disc # None

\* C16 witness: a user of sufficient age was refused by the discipline check.
C16_Witness ==
  /\ req.result.tag = "Err"
  /\ req.age # None /\ req.age[1] >= min_age
  /\ req.disc = None
  /\ req.result.calls = <<"verify_age", "check_discipline">>

\* C13: when the ledger fetch succeeds, verify_consent returns Ok(false),
\* never an error and never true, for every record whose status is Pending,
\* Revoked or Expired and for every Active record whose expires_at is set and
\* earlier than the time of the check, whatever the proof is.
C13_InactiveOrExpiredIsFalse ==
  (/\ ver.result.tag # "none"
   /\ ver.ledger = "ok"
   /\ \/ ver.record.status \in {"Pending", "Revoked", "Expired"}
      \/ /\ ver.record.status = "Active"
         /\ ver.record.expires_at # None
         /\ ver.record.expires_at[1] < ver.at)
  => ver.result = OkBool(FALSE)

\* C13 witness: an Active record that expired before the check was presented
\* with the proof that matches its transaction reference, and was refused.
C13_Witness ==
  /\ ver.ledger = "ok"
  /\ ver.record.status = "Active"
  /\ ver.record.expires_at # None
  /\ ver.record.expires_at[1] < ver.at
  /\ verify_proof_signature(ver.proof, ver.record.tx_hash, min_age)
  /\ ver.result = OkBool(FALSE)

\* C14: every ToolResponse execute_tool returns, on any path, has exactly one
\* of result and error populated, and has no result when its status is Timeout
\* or ConsentDenied.
C14_ExactlyOnePayload ==
  \A c \in Calls :
    out[c].tag = "Ok" =>
      /\ (Response(c).result # None) # (Response(c).error # None)
      /\ Response(c).status \in {"Timeout", "ConsentDenied"} =>
           Response(c).result = None

\* C17: every ToolResponse execute_tool returns carries the id of the ToolCall
\* it answers, also when the executor built the response.
C17_CallIdEchoed ==
  \A c \in Calls :
    out[c].tag = "Ok" => Response(c).call_id = tool_call[c].id

\* C11: after any sequence of register_executor calls the registry holds
\* exactly the names that were registered, each mapped to the executor of the
\* last registration under that name; registering a name again succeeds and
\* replaces the entry; list_tools returns exactly the registered names, each
\* once.
C11_RegistryIsLastRegistration ==
  /\ DOMAIN registry = {n \in RegisteredNames : reg_log.last[n] # None}
  /\ \A n \in DOMAIN registry : registry[n] = reg_log.last[n][1]
  /\ reg_log.result \in {"none", "Ok"}
  /\ listed.tools # None =>
       /\ {listed.tools[1][i] : i \in DOMAIN listed.tools[1]} = listed.registered
       /\ Len(listed.tools[1]) = Cardinality(listed.registered)

\* C11 witness: a registration replaced the executor of a name present and
\* list_tools then returned both registered names.
C11_Witness ==
  /\ reg_log.replaced /\ reg_log.result = "Ok"
  /\ "test-tool" \in DOMAIN registry
  /\ registry["test-tool"] = "e2"
  /\ listed.tools # None
  /\ Len(listed.tools[1]) = 2

\* C15: a register_executor waiting for the registry lock never stands
\* between a concurrent execute_tool for another tool name and its lookup
\* while the executor of some other call is running: no call waits for the
\* read guard behind a registration that itself waits for a running executor.
C15_DispatchNotBehindRegistration ==
  \A c \in Calls :
    (/\ pc[c] = "wait_read"
     /\ rpc = "wait_write"
     /\ name(reg_exec[1]) # tool_call[c].tool_name)
    => ~ (/\ \E d \in Calls : pc[d] = "executing" /\ d \in readers
          /\ \E i, j \in DOMAIN lockq :
               /\ i < j
               /\ lockq[i] = Writer(reg_exec[1])
               /\ lockq[j] = Reader(c))

\* C19: max_concurrent is only recorded. A call that is first in line for the
\* read guard while no registration holds the lock is dispatched however many
\* executors are running, and every error execute_tool returns is a consent
\* failure or an unknown tool, never a refusal for lack of capacity.
C19_LimitNotEnforced ==
  \A c \in Calls :
    /\ (/\ pc[c] = "wait_read"
        /\ lockq # <<>> /\ Head(lockq) = Reader(c)
        /\ writer = None)
       => ENABLED Dispatch(c)
    /\ out[c].tag = "Err" =>
         \/ consent[c] \in {"false", "error"}
         \/ lookup[c] = "miss"

\* C19 witness: more executors are running than max_concurrent, which is at
\* least one.
C19_Witness ==
  /\ max_concurrent >= 1
  /\ Cardinality({c \in Calls : pc[c] = "executing"}) > max_concurrent

\* C20: no registration holds the write guard while an execute_tool is
\* between its lookup and its return; the entry a running call was
\* dispatched through is still the one in the registry; a registration
\* issued while an executor runs has not completed.
C20_RegistryMutualExclusion ==
  /\ (writer # None \/ rpc = "writing") =>
       /\ readers = {}
       /\ \A c \in Calls : pc[c] # "executing"
  /\ \A c \in Calls :
       pc[c] = "executing" =>
         /\ tool_call[c].tool_name \in DOMAIN registry
         /\ registry[tool_call[c].tool_name] = invoked[c][1]

\* C20 witness: while the executor of a call runs, a registration of
\* another executor under the same name has asked for the write guard and
\* waits.
C20_Witness ==
  \E c \in Calls :
    /\ pc[c] = "executing"
    /\ rpc = "wait_write"
    /\ name(reg_exec[1]) = tool_call[c].tool_name
    /\ reg_exec[1] # invoked[c][1]
    /\ registry[tool_call[c].tool_name] = invoked[c][1]

\* C18: every execute_tool whose consent check has passed returns to its
\* caller, also when the executor never completes, and holds no read guard
\* once it has returned.
C18_CallReturns ==
  \A c \in Calls :
    (pc[c] \in {"wait_read", "executing"})
      ~> (pc[c] = "done" /\ c \notin readers)

\* C18 witness: a call returned through the timeout branch, its executor not
\* having answered, and its read guard is released.
C18_Witness ==
  \E c \in Calls :
    /\ pc[c] = "done"
    /\ consent[c] = "true"
    /\ answer[c].arm = "elapsed"
    /\ c \notin readers

====
